---- MODULE Spec2Model ----
(***************************************************************************)
(* Model of my_model/yolo_detect.py: the start-up sequence (serial         *)
(* connection, argument validation, source classification, recorder and    *)
(* capture set-up), the inference loop (frame load, resize, inference,     *)
(* detection filtering, Arduino signalling with retries, display, record,  *)
(* key poll) and the clean-up that follows the loop.                       *)
(*                                                                         *)
(* Strings the program inspects character by character (the source         *)
(* argument, file names, class names) are sequences of one-character       *)
(* strings.  Confidences and thresholds are in hundredths.                 *)
(***************************************************************************)
EXTENDS Integers, Sequences, FiniteSets, TLC

VARIABLES
    pc,                 \* position of the script
    arduino,            \* "none" (None) | "open" | "closed"
    model_exists,       \* os.path.exists(model_path)
    img_source,         \* args.source, a sequence of characters
    pathKind,           \* what the file system holds at img_source
    dirListing,         \* glob-visible and hidden entries of the directory
    min_thresh,         \* float(args.thresh), in hundredths
    user_res,           \* args.resolution: NoRes, or the numbers between its x's
    record,             \* args.record
    source_type,        \* "unset" | "folder" | "image" | "video" | "usb"
    usb_idx,            \* <<int(img_source[3:])>> for a usb source, else NoIdx
    resize,             \* resize flag of line 68-70
    imgs_list,          \* pending item queue
    cap,                \* "none" | "opened" | "failed" | "released"
    recorder,           \* "none" | "open" | "released"
    windows,            \* "none" | "shown" | "destroyed"
    frame,              \* NoFrame, or the size <<w, h>> of the current frame
    detections,         \* results[0].boxes of the current iteration
    ambulance_detected, \* flag of line 135
    drawn,              \* overlays drawn on the current frame
    writeLog,           \* outcomes of arduino.write in the current notify call
    sleeps,             \* time.sleep(1) calls in the current notify call
    notifyCalls,        \* send_signal_to_arduino calls in the current iteration
    opened,             \* open calls that succeeded so far, per resource
    released,           \* release calls made so far, per resource
    exitVia,            \* "none" | "sys_exit" | "end" | "exception"
    reason,             \* why the loop or the script ended
    initialQueue,       \* imgs_list as built at line 86/88
    processed,          \* items popped from imgs_list, in order
    iter,               \* frames obtained so far
    shown,              \* iteration numbers of the frames displayed
    recorded,           \* iteration numbers of the frames written to the recorder
    failedRelease,      \* the resource whose release call raised, or "none"
    keyPolls,           \* cv2.waitKey calls made so far
    inferences          \* calls of the model that returned

vars == <<pc, arduino, model_exists, img_source, pathKind, dirListing, min_thresh,
          user_res, record, source_type, usb_idx, resize, imgs_list, cap, recorder,
          windows, frame, detections, ambulance_detected, drawn, writeLog, sleeps,
          notifyCalls, opened, released, exitVia, reason, initialQueue, processed, iter,
          shown, recorded, failedRelease, keyPolls, inferences>>

(***************************************************************************)
(* Bounds of the model.                                                    *)
(***************************************************************************)
MaxStemLen == 5     \* characters of a source argument before its extension
MaxDets    == 2     \* detections the model returns for one frame
MaxEntries == 3     \* entries of a source directory
MaxFrames  == 2     \* frames a video or camera delivers before it ends

(***************************************************************************)
(* Character strings.                                                      *)
(***************************************************************************)
Jpg  == <<".", "j", "p", "g">>
Jpeg == <<".", "j", "p", "e", "g">>
Png  == <<".", "p", "n", "g">>
Bmp  == <<".", "b", "m", "p">>
Avi  == <<".", "a", "v", "i">>
Mov  == <<".", "m", "o", "v">>
Mp4  == <<".", "m", "p", "4">>
Mkv  == <<".", "m", "k", "v">>
Wmv  == <<".", "w", "m", "v">>

\* line 52
img_ext_list == {Jpg, Jpeg, Png, Bmp}
\* line 53
vid_ext_list == {Avi, Mov, Mp4, Mkv, Wmv}

Digits == {"0", "1", "2", "3", "4", "5", "6", "7", "8", "9"}

DigitVal(c) ==
    CASE c = "0" -> 0 [] c = "1" -> 1 [] c = "2" -> 2 [] c = "3" -> 3
      [] c = "4" -> 4 [] c = "5" -> 5 [] c = "6" -> 6 [] c = "7" -> 7
      [] c = "8" -> 8 [] c = "9" -> 9

\* s[from..], Python's s[from-1:]
Drop(s, n) == IF n >= Len(s) THEN <<>> ELSE SubSeq(s, n + 1, Len(s))

\* Python's `sub in s`
Contains(s, sub) ==
    \E i \in 1..(Len(s) - Len(sub) + 1) : SubSeq(s, i, i + Len(sub) - 1) = sub

\* os.path.splitext(s)[1] for a name without directory separators: the text from
\* the last dot on, unless only dots precede it (a leading dot starts no extension)
splitext(s) ==
    LET dots == {i \in 1..Len(s) : s[i] = "."}
    IN  IF dots = {} THEN <<>>
        ELSE LET last == CHOOSE i \in dots : \A j \in dots : j <= i
             IN  IF \A j \in 1..(last - 1) : s[j] = "." THEN <<>>
                 ELSE SubSeq(s, last, Len(s))

RECURSIVE DigitsValue(_)
DigitsValue(s) ==
    IF s = <<>> THEN 0
    ELSE 10 * DigitsValue(SubSeq(s, 1, Len(s) - 1)) + DigitVal(s[Len(s)])

\* Python's int(s) on the characters the model draws: an optional sign followed
\* by at least one digit; anything else raises ValueError
IntParses(s) ==
    LET body == IF s # <<>> /\ s[1] \in {"-", "+"} THEN Drop(s, 1) ELSE s
    IN  body # <<>> /\ \A i \in 1..Len(body) : body[i] \in Digits

IntValue(s) ==
    IF s[1] = "-" THEN 0 - DigitsValue(Drop(s, 1))
    ELSE IF s[1] = "+" THEN DigitsValue(Drop(s, 1))
    ELSE DigitsValue(s)

(***************************************************************************)
(* Inputs.                                                                 *)
(***************************************************************************)
NoRes   == <<>>
NoFrame == <<>>
NoIdx   == <<>>

Resources == {"cap", "recorder", "windows", "serial"}
PathKinds == {"dir", "file", "absent"}

\* all character strings of at most n characters over the alphabet
StringsUpTo(alphabet, n) == UNION {[1..k -> alphabet] : k \in 0..n}

SourceAlphabet == {"u", "s", "b", "1", "x", "-"}
SourceExts     == {<<>>, Jpg, Png, Mp4, <<".", "J", "P", "G">>, <<".", "t", "x", "t">>}

\* the source arguments source classification is examined on
AllSources ==
    {stem \o ext : stem \in StringsUpTo(SourceAlphabet, MaxStemLen), ext \in SourceExts}

\* the source arguments whole runs are examined on
RunSources ==
    { <<"x">>, <<"x">> \o Jpg, <<"x">> \o Mp4, <<"u", "s", "b", "1">>,
      <<"u", "s", "b", "x">> }

\* what the file system can hold at a path: nothing exists at the empty path
KindsOf(src) == IF src = <<>> THEN {"absent"} ELSE PathKinds

DirNames ==
    { <<"a">> \o Jpg, <<"b", ".", "t", "x", "t">>, <<"c">> \o Png,
      <<".", "h">> \o Jpg }

\* the entries of a directory in the order the file system yields them
Listings ==
    {l \in StringsUpTo(DirNames, MaxEntries) :
        \A i, j \in 1..Len(l) : i # j => l[i] # l[j]}

Thresholds   == {0, 50}
ConfValues   == {0, 50, 51}
OverrideRes  == <<2, 2>>
\* a resolution argument that holds one number only, such as "640"
OneNumberRes == <<2>>
NativeSizes  == {<<2, 2>>, <<3, 2>>}

(***************************************************************************)
(* Source classification, lines 55-65.                                     *)
(***************************************************************************)
Usb == <<"u", "s", "b">>

\* line 60
LooksLikeUsb(src) == Contains(src, Usb)

\* lines 55-65: the source type, the camera index and how the statement ends
\* ("ok", "sys_exit" for sys.exit(0), "exception" for an uncaught ValueError)
ClassifySource(src, kind) ==
    IF kind = "dir" THEN
        [outcome |-> "ok", source_type |-> "folder", usb_idx |-> NoIdx]
    ELSE IF kind = "file" THEN
        LET ext == splitext(src)
        IN  IF ext \in img_ext_list THEN
                [outcome |-> "ok", source_type |-> "image", usb_idx |-> NoIdx]
            ELSE IF ext \in vid_ext_list THEN
                [outcome |-> "ok", source_type |-> "video", usb_idx |-> NoIdx]
            ELSE [outcome |-> "sys_exit", source_type |-> "unset", usb_idx |-> NoIdx]
    ELSE IF LooksLikeUsb(src) THEN
        IF IntParses(Drop(src, 3)) THEN
            [outcome |-> "ok", source_type |-> "usb", usb_idx |-> <<IntValue(Drop(src, 3))>>]
        ELSE [outcome |-> "exception", source_type |-> "usb", usb_idx |-> NoIdx]
    ELSE [outcome |-> "sys_exit", source_type |-> "unset", usb_idx |-> NoIdx]

(***************************************************************************)
(* Initial state: the arguments and the environment are fixed, nothing has *)
(* run yet.                                                                *)
(***************************************************************************)
InitRest ==
    /\ arduino = "none"
    /\ source_type = "unset"
    /\ usb_idx = NoIdx
    /\ resize = FALSE
    /\ imgs_list = <<>>
    /\ cap = "none"
    /\ recorder = "none"
    /\ windows = "none"
    /\ frame = NoFrame
    /\ detections = <<>>
    /\ ambulance_detected = FALSE
    /\ drawn = <<>>
    /\ writeLog = <<>>
    /\ sleeps = 0
    /\ notifyCalls = 0
    /\ opened = [r \in Resources |-> 0]
    /\ released = [r \in Resources |-> 0]
    /\ exitVia = "none"
    /\ reason = "none"
    /\ initialQueue = <<>>
    /\ processed = <<>>
    /\ iter = 0
    /\ shown = <<>>
    /\ recorded = <<>>
    /\ failedRelease = "none"
    /\ keyPolls = 0
    /\ inferences = 0

Init ==
    /\ pc = "init_serial"
    /\ model_exists \in BOOLEAN
    /\ img_source \in RunSources
    /\ pathKind \in KindsOf(img_source)
    /\ dirListing \in IF pathKind = "dir" THEN Listings ELSE {<<>>}
    /\ min_thresh \in Thresholds
    /\ user_res \in {NoRes, OverrideRes, OneNumberRes}
    /\ record \in BOOLEAN
    /\ InitRest

inputs == <<model_exists, img_source, pathKind, dirListing, min_thresh, user_res, record>>

(***************************************************************************)
(* Ways the script ends.                                                   *)
(***************************************************************************)
\* sys.exit(0): SystemExit unwinds the script, nothing after it runs
SysExit(why) ==
    /\ pc' = "stopped"
    /\ exitVia' = "sys_exit"
    /\ reason' = why

\* an exception nothing catches: the traceback ends the script
Raise(why) ==
    /\ pc' = "stopped"
    /\ exitVia' = "exception"
    /\ reason' = why

(***************************************************************************)
(* Start-up, lines 13-93.                                                  *)
(***************************************************************************)
\* lines 13-23: serial.Serial either connects or raises, which init_serial catches
init_serial ==
    /\ pc = "init_serial"
    /\ \E connected \in BOOLEAN :
        /\ arduino' = IF connected THEN "open" ELSE "none"
        /\ opened' = [opened EXCEPT !["serial"] = IF connected THEN 1 ELSE 0]
    /\ pc' = "check_model"
    /\ UNCHANGED <<inputs, failedRelease, keyPolls, inferences, source_type, usb_idx,
                   resize, imgs_list, cap, recorder,
                   windows, frame, detections, ambulance_detected, drawn, writeLog,
                   sleeps, notifyCalls, released, exitVia, reason, initialQueue,
                   processed, iter, shown, recorded>>

\* lines 43-49
CheckModel ==
    /\ pc = "check_model"
    /\ IF ~model_exists THEN SysExit("config_error")
       ELSE pc' = "classify" /\ UNCHANGED <<exitVia, reason>>
    /\ UNCHANGED <<inputs, failedRelease, keyPolls, inferences, arduino, source_type,
                   usb_idx, resize, imgs_list, cap,
                   recorder, windows, frame, detections, ambulance_detected, drawn,
                   writeLog, sleeps, notifyCalls, opened, released, initialQueue,
                   processed, iter, shown, recorded>>

\* lines 55-65
DetermineSourceType ==
    /\ pc = "classify"
    /\ LET c == ClassifySource(img_source, pathKind)
       IN  /\ source_type' = c.source_type
           /\ usb_idx' = c.usb_idx
           /\ CASE c.outcome = "ok" -> pc' = "resolution" /\ UNCHANGED <<exitVia,
                   reason>>
                [] c.outcome = "sys_exit" -> SysExit("config_error")
                [] c.outcome = "exception" -> Raise("ValueError")
    /\ UNCHANGED <<inputs, failedRelease, keyPolls, inferences, arduino, resize,
                   imgs_list, cap, recorder, windows, frame,
                   detections, ambulance_detected, drawn, writeLog, sleeps, notifyCalls,
                   opened, released, initialQueue, processed, iter, shown, recorded>>

\* line 71: `resW, resH = map(int, ...)` unpacks exactly two numbers
ResolutionParses(res) == Len(res) = 2

\* lines 68-71
HandleResolution ==
    /\ pc = "resolution"
    /\ resize' = (user_res # NoRes)
    /\ IF user_res # NoRes /\ ~ResolutionParses(user_res) THEN Raise("ValueError")
       ELSE pc' = "record_setup" /\ UNCHANGED <<exitVia, reason>>
    /\ UNCHANGED <<inputs, failedRelease, keyPolls, inferences, arduino, source_type,
                   usb_idx,
                   imgs_list, cap, recorder, windows, frame, detections,
                   ambulance_detected, drawn, writeLog, sleeps, notifyCalls, opened,
                   released, initialQueue, processed, iter, shown, recorded>>

\* recording accepted whatever the source type
RecordingSourceAny(st) == TRUE

\* line 75
RecordingSourceOk(st) == st \in {"video", "usb"}

\* lines 74-81
RecordingSetup ==
    /\ pc = "record_setup"
    /\ IF record /\ ~RecordingSourceOk(source_type) THEN
            SysExit("config_error") /\ UNCHANGED <<recorder, opened>>
       ELSE IF record /\ user_res = NoRes THEN
            SysExit("config_error") /\ UNCHANGED <<recorder, opened>>
       ELSE /\ recorder' = IF record THEN "open" ELSE recorder
            /\ opened' = [opened EXCEPT !["recorder"] = IF record THEN 1 ELSE @]
            /\ pc' = "open_source"
            /\ UNCHANGED <<exitVia, reason>>
    /\ UNCHANGED <<inputs, failedRelease, keyPolls, inferences, arduino, source_type,
                   usb_idx, resize, imgs_list, cap,
                   windows, frame, detections, ambulance_detected, drawn, writeLog,
                   sleeps, notifyCalls, released, initialQueue, processed, iter, shown,
                   recorded>>

\* glob.glob(img_source + '/*'): the pattern * matches no name that begins with a dot
glob(listing) == SelectSeq(listing, LAMBDA name : name[1] # ".")

\* line 88: the entries glob yields whose extension is an image extension
FolderImages(listing) ==
    SelectSeq(glob(listing), LAMBDA name : splitext(name) \in img_ext_list)

\* lines 84-93: cv2.VideoCapture returns a handle whether or not the source opened
OpenSource ==
    /\ pc = "open_source"
    /\ CASE source_type = "image" ->
              /\ imgs_list' = <<img_source>>
              /\ UNCHANGED <<cap, opened>>
         [] source_type = "folder" ->
              /\ imgs_list' = FolderImages(dirListing)
              /\ UNCHANGED <<cap, opened>>
         [] source_type \in {"video", "usb"} ->
              /\ \E ok \in BOOLEAN :
                    /\ cap' = IF ok THEN "opened" ELSE "failed"
                    /\ opened' = [opened EXCEPT !["cap"] = IF ok THEN 1 ELSE 0]
              /\ UNCHANGED imgs_list
    /\ initialQueue' = imgs_list'
    /\ pc' = "load_frame"
    /\ UNCHANGED <<inputs, failedRelease, keyPolls, inferences, arduino, source_type,
                   usb_idx, resize, recorder, windows,
                   frame, detections, ambulance_detected, drawn, writeLog, sleeps,
                   notifyCalls, released, exitVia, reason, processed, iter, shown,
                   recorded>>

(***************************************************************************)
(* Detection filtering, lines 135-152.                                     *)
(***************************************************************************)
UpperCase == <<"A", "B", "C", "D", "E", "F", "G", "H", "I", "J", "K", "L", "M",
               "N", "O", "P", "Q", "R", "S", "T", "U", "V", "W", "X", "Y", "Z">>
LowerCase == <<"a", "b", "c", "d", "e", "f", "g", "h", "i", "j", "k", "l", "m",
               "n", "o", "p", "q", "r", "s", "t", "u", "v", "w", "x", "y", "z">>

\* str.lower() on one character
LowerChar(c) ==
    IF \E i \in 1..Len(UpperCase) : UpperCase[i] = c
    THEN LowerCase[CHOOSE i \in 1..Len(UpperCase) : UpperCase[i] = c]
    ELSE c

\* str.lower()
lower(s) == [i \in 1..Len(s) |-> LowerChar(s[i])]

Ambulance == <<"a", "m", "b", "u", "l", "a", "n", "c", "e">>

\* model.names, indexed by class index + 1
labels ==
    << <<"c", "a", "r">>,
       Ambulance,
       <<"A", "m", "b", "u", "l", "a", "n", "c", "e">>,
       <<"b", "u", "s">>,
       <<"A", "M", "B", "U", "L", "A", "N", "C", "E">>,
       <<"a", "m", "b", "u", "l", "a", "n", "c", "e", "s">> >>

ClassIndices == 0..(Len(labels) - 1)

\* line 96
bbox_colors == << <<164, 120, 87>>, <<68, 148, 228>>, <<93, 97, 209>>, <<178, 182, 133>> >>

\* one entry of results[0].boxes: class index and confidence (the box itself is
\* only passed on to the drawing calls)
Detections == [cls : ClassIndices, conf : ConfValues]

\* every result the filter is examined on
AllDetectionLists == StringsUpTo(Detections, MaxDets)

Det(c, f) == [cls |-> c, conf |-> f]

\* the results whole runs are examined on
RunDetectionLists ==
    { <<>>, <<Det(0, 51)>>, <<Det(2, 51)>>, <<Det(1, 50)>>,
      <<Det(2, 51), Det(4, 51)>>, <<Det(3, 51), Det(1, 0)>> }

\* the comparison with >= in place of >
PassesThresholdInclusive(conf, thresh) == conf >= thresh

\* line 145
PassesThreshold(conf, thresh) == conf > thresh

\* the comparison without .lower()
IsAmbulanceCaseSensitive(classname) == classname = Ambulance

\* line 151
IsAmbulance(classname) == lower(classname) = Ambulance

\* the index clamped to the palette in place of wrapped around
ColorOfClamped(classidx) ==
    bbox_colors[(IF classidx >= Len(bbox_colors) THEN Len(bbox_colors) - 1
                 ELSE classidx) + 1]

\* line 146
ColorOf(classidx) == bbox_colors[(classidx % Len(bbox_colors)) + 1]

\* lines 138-152: the for loop over the detections, from index i on
RECURSIVE ProcessFrom(_, _, _, _)
ProcessFrom(dets, i, thresh, acc) ==
    IF i > Len(dets) THEN acc
    ELSE LET classidx  == dets[i].cls
             classname == labels[classidx + 1]
             conf      == dets[i].conf
         IN  IF PassesThreshold(conf, thresh) THEN
                 ProcessFrom(dets, i + 1, thresh,
                     [drawn |-> Append(acc.drawn,
                                       [idx |-> i, color |-> ColorOf(classidx),
                                        classname |-> classname, conf |-> conf]),
                      ambulance_detected |->
                          IF IsAmbulance(classname) THEN TRUE
                          ELSE acc.ambulance_detected])
             ELSE ProcessFrom(dets, i + 1, thresh, acc)

\* lines 135-152
Annotate(dets, thresh) ==
    ProcessFrom(dets, 1, thresh, [drawn |-> <<>>, ambulance_detected |-> FALSE])

(***************************************************************************)
(* Signalling, lines 99-110.                                               *)
(***************************************************************************)
\* line 99: retries=3
retries == 3

\* the call made without looking at the flag
ShouldSignalAlways(flag) == TRUE

\* line 155
ShouldSignal(flag) == flag

\* the write attempted without the test of line 100
ArduinoUsableUnchecked(a) == TRUE

\* line 100: `arduino and arduino.is_open`
ArduinoUsable(a) == a = "open"

\* the retry loop without the `return` of line 105
AttemptAgainAfterSuccess(attempts, ok) == attempts < retries

\* the retry loop running one attempt too many
AttemptAgainOffByOne(attempts, ok) == ~ok /\ attempts <= retries

\* lines 101-108: whether the for loop makes another attempt after the attempt
\* that brought the number of writes to `attempts` and ended as `ok`
AttemptAgain(attempts, ok) == ~ok /\ attempts < retries

(***************************************************************************)
(* The inference loop, lines 113-170.                                      *)
(***************************************************************************)
\* the loop carried on where it should leave
BreakContinues(why) ==
    /\ pc' = "load_frame"
    /\ reason' = why
    /\ UNCHANGED exitVia

\* `break`: on to the clean-up
Break(why) ==
    /\ pc' = "cleanup_cap"
    /\ reason' = why
    /\ UNCHANGED exitVia

\* the first item read without being taken off the list
PopNothing(q) == [item |-> Head(q), rest |-> q]

\* imgs_list.pop(): the last item in place of the first
PopLast(q) == [item |-> q[Len(q)], rest |-> SubSeq(q, 1, Len(q) - 1)]

\* line 121: imgs_list.pop(0)
PopItem(q) == [item |-> Head(q), rest |-> Tail(q)]

\* lines 114-126: cv2.imread returns None for an item it cannot decode; cap.read
\* returns ret = False when the stream has no further frame
LoadFrame ==
    /\ pc = "load_frame"
    /\ IF source_type \in {"image", "folder"} THEN
            IF imgs_list = <<>> THEN
                /\ SysExit("eos")
                /\ UNCHANGED <<imgs_list, processed, frame, iter>>
            ELSE
                /\ imgs_list' = PopItem(imgs_list).rest
                /\ processed' = Append(processed, PopItem(imgs_list).item)
                /\ frame' \in NativeSizes \cup {NoFrame}
                /\ iter' = iter + 1
                /\ pc' = "resize"
                /\ UNCHANGED <<exitVia, reason>>
       ELSE /\ cap # "none"
            /\ \/ /\ cap = "opened"
                  /\ iter < MaxFrames
                  /\ frame' \in NativeSizes
                  /\ iter' = iter + 1
                  /\ pc' = "resize"
                  /\ UNCHANGED <<exitVia, reason>>
               \/ /\ frame' = NoFrame
                  /\ Break("eos")
                  /\ UNCHANGED iter
            /\ UNCHANGED <<imgs_list, processed>>
    /\ drawn' = <<>>
    /\ writeLog' = <<>>
    /\ sleeps' = 0
    /\ notifyCalls' = 0
    /\ UNCHANGED <<inputs, failedRelease, keyPolls, inferences, arduino, source_type,
                   usb_idx, resize, cap, recorder,
                   windows, detections, ambulance_detected, opened, released,
                   initialQueue, shown, recorded>>

\* the frame passed on as it was read
ResizeSkipped(flag, f, res) == f

\* lines 128-129: cv2.resize returns an image of exactly the size asked for
ResizeTo(flag, f, res) == IF flag THEN res ELSE f

\* lines 128-129: cv2.resize raises on None
ResizeFrame ==
    /\ pc = "resize"
    /\ IF resize /\ frame = NoFrame THEN
            Raise("cv2.error") /\ UNCHANGED frame
       ELSE /\ frame' = ResizeTo(resize, frame, user_res)
            /\ pc' = "infer"
            /\ UNCHANGED <<exitVia, reason>>
    /\ UNCHANGED <<inputs, failedRelease, keyPolls, inferences, arduino, source_type,
                   usb_idx, resize, imgs_list, cap,
                   recorder, windows, detections, ambulance_detected, drawn, writeLog,
                   sleeps, notifyCalls, opened, released, initialQueue, processed, iter,
                   shown, recorded>>

\* lines 132-133: what the model does with None is the library's business: it
\* raises, or it answers with the detections of some other input
RunInference ==
    /\ pc = "infer"
    /\ \/ /\ detections' \in RunDetectionLists
          /\ inferences' = inferences + 1
          /\ pc' = "process"
          /\ UNCHANGED <<exitVia, reason>>
       \/ /\ frame = NoFrame
          /\ Raise("model error")
          /\ UNCHANGED <<detections, inferences>>
    /\ UNCHANGED <<inputs, failedRelease, keyPolls, arduino, source_type, usb_idx,
                   resize, imgs_list, cap,
                   recorder, windows, frame, ambulance_detected, drawn, writeLog,
                   sleeps, notifyCalls, opened, released, initialQueue, processed, iter,
                   shown, recorded>>

\* lines 135-152: cv2.rectangle raises on None, so the loop ends at the first
\* detection that passes the threshold when there is no frame
ProcessDetections ==
    /\ pc = "process"
    /\ LET r == Annotate(detections, min_thresh)
       IN  IF frame = NoFrame /\ r.drawn # <<>> THEN
                /\ Raise("cv2.error")
                /\ ambulance_detected' = FALSE
                /\ UNCHANGED drawn
           ELSE /\ drawn' = r.drawn
                /\ ambulance_detected' = r.ambulance_detected
                /\ pc' = "signal"
                /\ UNCHANGED <<exitVia, reason>>
    /\ UNCHANGED <<inputs, failedRelease, keyPolls, inferences, arduino, source_type,
                   usb_idx, resize, imgs_list, cap,
                   recorder, windows, frame, detections, writeLog, sleeps, notifyCalls,
                   opened, released, initialQueue, processed, iter, shown, recorded>>

\* lines 155-156 and 100, 109-110: the call of send_signal_to_arduino('A') up to
\* its first write, or through its else branch
SendSignal ==
    /\ pc = "signal"
    /\ IF ShouldSignal(ambulance_detected) THEN
            /\ notifyCalls' = notifyCalls + 1
            /\ pc' = IF ArduinoUsable(arduino) THEN "arduino_write" ELSE "display"
       ELSE /\ pc' = "display"
            /\ UNCHANGED notifyCalls
    /\ UNCHANGED <<inputs, failedRelease, keyPolls, inferences, arduino, source_type,
                   usb_idx, resize, imgs_list, cap,
                   recorder, windows, frame, detections, ambulance_detected, drawn,
                   writeLog, sleeps, opened, released, exitVia, reason, initialQueue,
                   processed, iter, shown, recorded>>

\* lines 101-108: one pass of the retry loop; arduino.write succeeds or raises
ArduinoWrite ==
    /\ pc = "arduino_write"
    /\ \E ok \in BOOLEAN :
        /\ writeLog' = Append(writeLog, ok)
        /\ sleeps' = IF ok THEN sleeps ELSE sleeps + 1
        /\ pc' = IF AttemptAgain(Len(writeLog) + 1, ok) THEN "arduino_write"
                 ELSE "display"
    /\ UNCHANGED <<inputs, failedRelease, keyPolls, inferences, arduino, source_type,
                   usb_idx, resize, imgs_list, cap,
                   recorder, windows, frame, detections, ambulance_detected, drawn,
                   notifyCalls, opened, released, exitVia, reason, initialQueue,
                   processed, iter, shown, recorded>>

\* line 159: cv2.imshow raises on None
DisplayFrame ==
    /\ pc = "display"
    /\ IF frame = NoFrame THEN
            Raise("cv2.error") /\ UNCHANGED <<shown, windows, opened>>
       ELSE /\ shown' = Append(shown, iter)
            /\ windows' = "shown"
            /\ opened' = [opened EXCEPT !["windows"] = 1]
            /\ pc' = "record"
            /\ UNCHANGED <<exitVia, reason>>
    /\ UNCHANGED <<inputs, failedRelease, keyPolls, inferences, arduino, source_type,
                   usb_idx, resize, imgs_list, cap,
                   recorder, frame, detections, ambulance_detected, drawn, writeLog,
                   sleeps, notifyCalls, released, initialQueue, processed, iter,
                   recorded>>

\* the frame not written
WriteFrameNever(rec, log, f) == log

\* lines 160-161: `if record: recorder.write(frame)`
WriteFrame(rec, log, f) == IF rec THEN Append(log, f) ELSE log

\* lines 160-161
RecordFrame ==
    /\ pc = "record"
    /\ recorded' = WriteFrame(record, recorded, iter)
    /\ pc' = "waitkey"
    /\ UNCHANGED <<inputs, failedRelease, keyPolls, inferences, arduino, source_type,
                   usb_idx, resize, imgs_list, cap,
                   recorder, windows, frame, detections, ambulance_detected, drawn,
                   writeLog, sleeps, notifyCalls, opened, released, exitVia, reason,
                   initialQueue, processed, iter, shown>>

Keys == {"q", "Q", "x", "none"}

\* line 165
IsQuitKey(key) == key \in {"q", "Q"}

\* lines 164-170
HandleKeypress ==
    /\ pc = "waitkey"
    /\ keyPolls' = keyPolls + 1
    /\ \E key \in Keys :
        IF IsQuitKey(key) THEN Break("quit")
        ELSE pc' = "load_frame" /\ UNCHANGED <<exitVia, reason>>
    /\ UNCHANGED <<inputs, failedRelease, inferences, arduino, source_type, usb_idx,
                   resize, imgs_list, cap, recorder, windows, frame, detections,
                   ambulance_detected, drawn, writeLog, sleeps, notifyCalls, opened,
                   released, initialQueue, processed, iter, shown, recorded>>

(***************************************************************************)
(* Clean-up, lines 172-179.                                                *)
(***************************************************************************)
\* a release call raises: nothing catches it, the rest of the script is skipped
ReleaseRaises(r) ==
    /\ pc' = "stopped"
    /\ exitVia' = "exception"
    /\ failedRelease' = r

\* lines 173-174
CleanupCap ==
    /\ pc = "cleanup_cap"
    /\ IF cap # "none" THEN
            \/ /\ cap' = "released"
               /\ released' = [released EXCEPT !["cap"] = @ + 1]
               /\ pc' = "cleanup_recorder"
               /\ UNCHANGED <<exitVia, failedRelease>>
            \/ /\ ReleaseRaises("cap")
               /\ UNCHANGED <<cap, released>>
       ELSE /\ pc' = "cleanup_recorder"
            /\ UNCHANGED <<cap, released, exitVia, failedRelease>>
    /\ UNCHANGED <<inputs, keyPolls, inferences, arduino, source_type, usb_idx,
                   resize, imgs_list,
                   recorder, windows, frame, detections, ambulance_detected, drawn,
                   writeLog, sleeps, notifyCalls, opened, reason, initialQueue,
                   processed, iter, shown, recorded>>

\* lines 175-176
CleanupRecorder ==
    /\ pc = "cleanup_recorder"
    /\ IF record THEN
            \/ /\ recorder' = "released"
               /\ released' = [released EXCEPT !["recorder"] = @ + 1]
               /\ pc' = "cleanup_windows"
               /\ UNCHANGED <<exitVia, failedRelease>>
            \/ /\ ReleaseRaises("recorder")
               /\ UNCHANGED <<recorder, released>>
       ELSE /\ pc' = "cleanup_windows"
            /\ UNCHANGED <<recorder, released, exitVia, failedRelease>>
    /\ UNCHANGED <<inputs, keyPolls, inferences, arduino, source_type, usb_idx,
                   resize, imgs_list,
                   cap, windows, frame, detections, ambulance_detected, drawn, writeLog,
                   sleeps, notifyCalls, opened, reason, initialQueue, processed, iter,
                   shown, recorded>>

\* line 177
CleanupWindows ==
    /\ pc = "cleanup_windows"
    /\ \/ /\ windows' = IF windows = "shown" THEN "destroyed" ELSE windows
          /\ released' = [released EXCEPT !["windows"] = @ + 1]
          /\ pc' = "cleanup_serial"
          /\ UNCHANGED <<exitVia, failedRelease>>
       \/ /\ ReleaseRaises("windows")
          /\ UNCHANGED <<windows, released>>
    /\ UNCHANGED <<inputs, keyPolls, inferences, arduino, source_type, usb_idx,
                   resize, imgs_list,
                   cap, recorder, frame, detections, ambulance_detected, drawn,
                   writeLog,
                   sleeps, notifyCalls, opened, reason, initialQueue, processed, iter,
                   shown, recorded>>

\* lines 178-179, then the script ends
CleanupSerial ==
    /\ pc = "cleanup_serial"
    /\ IF arduino # "none" THEN
            \/ /\ arduino' = "closed"
               /\ released' = [released EXCEPT !["serial"] = @ + 1]
               /\ pc' = "stopped"
               /\ exitVia' = "end"
               /\ UNCHANGED failedRelease
            \/ /\ ReleaseRaises("serial")
               /\ UNCHANGED <<arduino, released>>
       ELSE /\ pc' = "stopped"
            /\ exitVia' = "end"
            /\ UNCHANGED <<arduino, released, failedRelease>>
    /\ UNCHANGED <<inputs, keyPolls, inferences, source_type, usb_idx, resize,
                   imgs_list, cap,
                   recorder, windows, frame, detections, ambulance_detected, drawn,
                   writeLog, sleeps, notifyCalls, opened, reason, initialQueue,
                   processed, iter, shown, recorded>>

(***************************************************************************)
(* The script.                                                             *)
(***************************************************************************)
Next ==
    \/ init_serial
    \/ CheckModel
    \/ DetermineSourceType
    \/ HandleResolution
    \/ RecordingSetup
    \/ OpenSource
    \/ LoadFrame
    \/ ResizeFrame
    \/ RunInference
    \/ ProcessDetections
    \/ SendSignal
    \/ ArduinoWrite
    \/ DisplayFrame
    \/ RecordFrame
    \/ HandleKeypress
    \/ CleanupCap
    \/ CleanupRecorder
    \/ CleanupWindows
    \/ CleanupSerial

Spec == Init /\ [][Next]_vars

\* the script is one sequential thread: whenever a statement can run it does,
\* every call it makes (inference, serial write, sleep, waitKey) returning
FairSpec == Spec /\ WF_vars(Next)

(***************************************************************************)
(* Source classification on its own: every source argument up to the       *)
(* bound, with every file-system answer, goes through lines 55-65.         *)
(***************************************************************************)
InitClassify ==
    /\ pc = "classify"
    /\ model_exists = TRUE
    /\ img_source \in AllSources
    /\ pathKind \in KindsOf(img_source)
    /\ dirListing = <<>>
    /\ min_thresh \in {50}
    /\ user_res = NoRes
    /\ record = FALSE
    /\ InitRest

SpecClassify == InitClassify /\ [][DetermineSourceType]_vars

(***************************************************************************)
(* Detection filtering on its own: every result list up to the bound, with *)
(* every threshold, goes through lines 135-152 on the first frame of a     *)
(* camera run.                                                             *)
(***************************************************************************)
InitAnnotate ==
    /\ pc = "process"
    /\ model_exists = TRUE
    /\ img_source = <<"u", "s", "b", "1">>
    /\ pathKind = "absent"
    /\ dirListing = <<>>
    /\ min_thresh \in Thresholds
    /\ user_res = NoRes
    /\ record = FALSE
    /\ arduino = "none"
    /\ source_type = "usb"
    /\ usb_idx = <<1>>
    /\ resize = FALSE
    /\ imgs_list = <<>>
    /\ cap = "opened"
    /\ recorder = "none"
    /\ windows = "none"
    /\ frame \in NativeSizes
    /\ detections \in AllDetectionLists
    /\ ambulance_detected = FALSE
    /\ drawn = <<>>
    /\ writeLog = <<>>
    /\ sleeps = 0
    /\ notifyCalls = 0
    /\ opened = [r \in Resources |-> IF r = "cap" THEN 1 ELSE 0]
    /\ released = [r \in Resources |-> 0]
    /\ exitVia = "none"
    /\ reason = "none"
    /\ initialQueue = <<>>
    /\ processed = <<>>
    /\ iter = 1
    /\ shown = <<>>
    /\ recorded = <<>>
    /\ failedRelease = "none"
    /\ keyPolls = 0
    /\ inferences = 1

SpecAnnotate == InitAnnotate /\ [][ProcessDetections]_vars

(***************************************************************************)
(* Properties.                                                             *)
(***************************************************************************)
Stopped == pc = "stopped"

\* C1: when the script stops after a normal end of the loop (end of stream or
\* the q/Q key), every resource that was opened has been released exactly once
\* (no release call having raised).
C1_ReleasedOnceOnNormalExit ==
    (Stopped /\ reason \in {"eos", "quit"} /\ failedRelease = "none") =>
        \A r \in Resources : opened[r] = 1 => released[r] = 1

\* C2: when start-up ends in a configuration error, every resource opened so far
\* has been released exactly once and nothing that was never opened is released.
C2_ReleasedOnConfigError ==
    (Stopped /\ reason = "config_error") =>
        \A r \in Resources : released[r] = opened[r]

AllFalse(log) == \A i \in 1..Len(log) : ~log[i]

\* C3: a notify call on an open connection whose writes fail k-1 times and then
\* succeed makes exactly k write attempts: no write follows a success, no call
\* makes more than 3 writes, and the call returns only after a success or after
\* its third failure.
C3_RetryDiscipline ==
    /\ Len(writeLog) <= 3
    /\ \A i \in 1..(Len(writeLog) - 1) : ~writeLog[i]
    /\ (pc = "arduino_write") => (Len(writeLog) < 3 /\ AllFalse(writeLog))
    /\ (pc # "arduino_write" /\ writeLog # <<>>) =>
            (writeLog[Len(writeLog)] \/ Len(writeLog) = 3)

C3_Witness ==
    /\ pc = "display"
    /\ arduino = "open"
    /\ writeLog = <<FALSE, FALSE, TRUE>>

\* the current notify call made three writes and all of them failed
ThreeFailed == Len(writeLog) = 3 /\ AllFalse(writeLog)

\* C4: when all 3 writes of a notify call fail, the call returns normally and
\* the loop is not aborted: the iteration goes on to display its frame, and the
\* loop is left afterwards only by the quit key.
C4_FailedNotifyDoesNotAbort ==
    ThreeFailed =>
        /\ (exitVia \in {"none", "end"} \/ failedRelease # "none")
        /\ pc \in {"display", "record", "waitkey", "load_frame", "cleanup_cap",
                   "cleanup_recorder", "cleanup_windows", "cleanup_serial", "stopped"}
        /\ frame # NoFrame
        /\ (pc # "display") => (shown # <<>> /\ shown[Len(shown)] = iter)
        /\ (pc \notin {"display", "record", "waitkey", "load_frame"}) => reason = "quit"

C4_Witness ==
    /\ ThreeFailed
    /\ pc = "waitkey"
    /\ sleeps = 3
    /\ shown # <<>> /\ shown[Len(shown)] = iter

\* C5: with the serial connection unavailable (or closed) the script still goes
\* on from init_serial into the loop, and a notify call makes no write and no
\* retry delay and returns.
C5_NoConnectionNoWrite ==
    /\ [](arduino = "none" => (writeLog = <<>> /\ sleeps = 0 /\ pc # "arduino_write"))
    /\ [][(pc = "signal" /\ arduino # "open") =>
            (pc' = "display" /\ writeLog' = writeLog /\ sleeps' = sleeps
             /\ exitVia' = exitVia)]_vars
    /\ [][(pc = "init_serial") => (pc' = "check_model" /\ exitVia' = "none")]_vars

C5_Witness ==
    /\ arduino = "none"
    /\ pc = "display"
    /\ notifyCalls = 1
    /\ iter = 2

\* C6: in an iteration that processes a frame, notify is called exactly once when
\* target_found is true, however many detections match, and not at all when it
\* is false; a write to the device happens only inside such a call.
C6_OneNotifyPerTargetFrame ==
    /\ notifyCalls <= 1
    /\ (pc \in {"resize", "infer", "process", "signal"}) => notifyCalls = 0
    /\ (pc \in {"arduino_write", "display", "record", "waitkey"}) =>
            notifyCalls = (IF ambulance_detected THEN 1 ELSE 0)
    /\ (pc = "arduino_write" \/ writeLog # <<>>) =>
            (notifyCalls = 1 /\ ambulance_detected)

\* the detections of the current frame that pass the threshold and name the target
Matches ==
    {i \in 1..Len(detections) :
        detections[i].conf > min_thresh /\ detections[i].cls \in {1, 2, 4}}

C6_Witness ==
    /\ pc = "display"
    /\ Cardinality(Matches) = 2
    /\ notifyCalls = 1

\* two characters that are the same letter, whatever their case
SameLetter(x, y) ==
    x = y \/ \E k \in 1..Len(UpperCase) : {x, y} = {UpperCase[k], LowerCase[k]}

\* equality of two strings under case-insensitive comparison
EqualIgnoringCase(a, b) ==
    Len(a) = Len(b) /\ \A i \in 1..Len(a) : SameLetter(a[i], b[i])

\* the filter has run on the current frame's detections
Filtered == pc = "signal"

\* C7: target_found is true exactly when some detection with confidence strictly
\* above the threshold has a class name equal to "ambulance" ignoring case.
C7_TargetFound ==
    Filtered =>
        (ambulance_detected <=>
            \E i \in 1..Len(detections) :
                /\ detections[i].conf > min_thresh
                /\ EqualIgnoringCase(labels[detections[i].cls + 1],
                                     <<"a", "m", "b", "u", "l", "a", "n", "c", "e">>))

C7_Witness ==
    /\ Filtered
    /\ ambulance_detected
    /\ Len(detections) = 2
    /\ detections[1].cls = 4 /\ detections[1].conf = min_thresh
    /\ detections[2].cls = 2 /\ detections[2].conf > min_thresh

\* C8: the detections drawn on the frame are exactly those whose confidence is
\* strictly above the threshold, each once and in order; one whose confidence
\* equals the threshold is not drawn.
C8_DrawnAboveThreshold ==
    Filtered =>
        /\ {drawn[k].idx : k \in 1..Len(drawn)} =
                {i \in 1..Len(detections) : detections[i].conf > min_thresh}
        /\ \A k, l \in 1..Len(drawn) : k < l => drawn[k].idx < drawn[l].idx

C8_Witness ==
    /\ Filtered
    /\ Len(detections) = 2
    /\ detections[1].conf = min_thresh
    /\ detections[2].conf > min_thresh
    /\ Len(drawn) = 1 /\ drawn[1].idx = 2

\* s ends with the extension e, e being the part from the last dot of a name
\* that does not consist of leading dots only
HasExtension(s, e) ==
    /\ Len(s) > Len(e)
    /\ SubSeq(s, Len(s) - Len(e) + 1, Len(s)) = e
    /\ \E i \in 1..(Len(s) - Len(e)) : s[i] # "."

\* `usb` followed by digits
UsbAndDigits(s) ==
    /\ Len(s) > 3
    /\ SubSeq(s, 1, 3) = <<"u", "s", "b">>
    /\ \A i \in 4..Len(s) : s[i] \in Digits

\* C9: a directory is an image directory; a file with an image extension a single
\* image; with a video extension a video file; `usb` followed by digits a live
\* camera with the parsed index; every other source argument ends the script as
\* a configuration error.
C9_SourceClassification ==
    (pc # "classify") =>
        IF pathKind = "dir" THEN source_type = "folder" /\ exitVia = "none"
        ELSE IF pathKind = "file"
                /\ \E e \in {Jpg, Jpeg, Png, Bmp} : HasExtension(img_source, e)
             THEN source_type = "image" /\ exitVia = "none"
        ELSE IF pathKind = "file"
                /\ \E e \in {Avi, Mov, Mp4, Mkv, Wmv} : HasExtension(img_source, e)
             THEN source_type = "video" /\ exitVia = "none"
        ELSE IF pathKind = "absent" /\ UsbAndDigits(img_source)
             THEN /\ source_type = "usb"
                  /\ usb_idx = <<DigitsValue(SubSeq(img_source, 4, Len(img_source)))>>
                  /\ exitVia = "none"
        ELSE exitVia = "sys_exit" /\ reason = "config_error"

ImageSource == source_type \in {"image", "folder"}

\* start-up is over: the queue has been built
QueueBuilt ==
    /\ pc \notin {"init_serial", "check_model", "classify", "resolution",
                  "record_setup", "open_source"}
    /\ reason \notin {"config_error", "ValueError"}

IsImageName(name) == \E e \in {Jpg, Jpeg, Png, Bmp} : HasExtension(name, e)

Undisturbed == reason \notin {"quit", "cv2.error", "model error"}

StartupPcs ==
    {"init_serial", "check_model", "classify", "resolution", "record_setup",
     "open_source"}

\* the source argument names something the script can read from
SourceRecognized ==
    \/ pathKind = "dir"
    \/ pathKind = "file" /\ \E e \in {Jpg, Jpeg, Png, Bmp, Avi, Mov, Mp4, Mkv, Wmv} :
                              HasExtension(img_source, e)
    \/ pathKind = "absent" /\ UsbAndDigits(img_source)

\* the source argument names an image or a directory of images
ImageArgument ==
    \/ pathKind = "dir"
    \/ pathKind = "file" /\ \E e \in {Jpg, Jpeg, Png, Bmp} : HasExtension(img_source, e)

ConfigurationError ==
    \/ ~model_exists
    \/ ~SourceRecognized
    \/ record /\ user_res = NoRes
    \/ record /\ ImageArgument

LoopPcs ==
    {"load_frame", "resize", "infer", "process", "signal", "arduino_write", "display",
     "record", "waitkey"}

CleanupPcs == {"cleanup_cap", "cleanup_recorder", "cleanup_windows", "cleanup_serial"}

\* start-up ran to its end and the loop was entered
LoopEntered ==
    /\ pc \notin StartupPcs
    /\ reason \notin {"config_error", "ValueError"}

\* C12: a source that cannot be read at start-up (video or camera that does not
\* open, image that does not decode) is a fatal configuration error: the loop is
\* never entered with it.
C12_UnreadableSourceIsFatal ==
    /\ (cap = "failed") => ~LoopEntered
    /\ (source_type = "image" /\ LoopEntered /\ iter = 1 /\ pc = "resize") =>
            frame # NoFrame

\* C13: a frame that fails to decode in mid-stream ends the stream: the loop is
\* left the normal way and nothing is done with the failed frame.
C13_DecodeFailureEndsStream ==
    (LoopEntered /\ pc # "load_frame" /\ frame = NoFrame) =>
        /\ reason = "eos"
        /\ pc \in CleanupPcs \cup {"stopped"}

\* C14: with recording active, the frames written to the recorder are the frames
\* displayed, in the same order and each once, the frame of the iteration that
\* ends on the quit key included; a frame is written only after it was displayed.
C14_RecordedEqualsShown ==
    (record /\ LoopEntered) =>
        /\ IF pc = "record" THEN shown = Append(recorded, iter) ELSE recorded = shown
        /\ \A k \in 1..Len(shown) : shown[k] = k
        /\ (reason = "quit") => (recorded # <<>> /\ recorded[Len(recorded)] = iter)

C14_Witness ==
    /\ Stopped
    /\ record
    /\ reason = "quit"
    /\ shown = <<1, 2>>
    /\ recorded = <<1, 2>>

\* the positions at which the current frame is with the model, the annotator,
\* the display or the recorder
FrameInUse ==
    pc \in {"infer", "process", "signal", "arduino_write", "display", "record",
            "waitkey"}

\* C15: with a resolution override, every frame handed to the model, the
\* annotator, the display and the recorder has exactly the override width and
\* height, for every source kind and whatever size the source delivered.
C15_FramesHaveOverrideSize ==
    (user_res # NoRes /\ FrameInUse) =>
        /\ Len(user_res) = 2
        /\ frame = user_res

C15_Witness ==
    /\ pc = "record"
    /\ source_type = "folder"
    /\ user_res = <<2, 2>>
    /\ frame = <<2, 2>>
    /\ iter = 2

\* the fixed palette of four colours, by class index modulo 4
PaletteColor(k) ==
    CASE k = 0 -> <<164, 120, 87>>
      [] k = 1 -> <<68, 148, 228>>
      [] k = 2 -> <<93, 97, 209>>
      [] k = 3 -> <<178, 182, 133>>

\* the class index of the k-th overlay drawn
DrawnClass(k) == detections[drawn[k].idx].cls

\* C16: a detection is drawn in palette[class index mod 4], so class indices
\* congruent modulo 4 (0 and 4, 1 and 5) get the same colour, and a class index
\* gets the same colour whenever it is drawn.
C16_ColorByClassMod4 ==
    Filtered =>
        /\ \A k \in 1..Len(drawn) : drawn[k].color = PaletteColor(DrawnClass(k) % 4)
        /\ \A k, l \in 1..Len(drawn) :
                (DrawnClass(k) % 4 = DrawnClass(l) % 4) => drawn[k].color = drawn[l].color

C16_Witness ==
    /\ Filtered
    /\ Len(drawn) = 2
    /\ DrawnClass(1) = 5 /\ DrawnClass(2) = 1
    /\ drawn[1].color = drawn[2].color

\* a release of resource r has been attempted
ReleaseAttempted(r) == released[r] >= 1 \/ failedRelease = r

\* C17: when an iteration fails with an error nothing recovers from, the release
\* of every resource that is open is still attempted before the script stops.
C17_CleanupAfterIterationFailure ==
    (Stopped /\ reason \in {"cv2.error", "model error"}) =>
        \A r \in Resources : opened[r] = 1 => ReleaseAttempted(r)

\* C18: the four releases of the clean-up are attempted independently: when one
\* of them fails, each of the others is still attempted.
C18_ReleasesIndependent ==
    (Stopped /\ failedRelease # "none") =>
        \A r \in Resources \ {failedRelease} : opened[r] = 1 => ReleaseAttempted(r)

QuitHonored == reason = "quit"

\* the call of send_signal_to_arduino, if one was made, has returned
NotifyComplete ==
    \/ writeLog = <<>>
    \/ writeLog[Len(writeLog)]
    \/ Len(writeLog) = retries

\* the current iteration has run the model, notified, displayed and recorded
IterationComplete ==
    /\ inferences = iter
    /\ NotifyComplete
    /\ ambulance_detected => notifyCalls = 1
    /\ (ambulance_detected /\ arduino # "none") => writeLog # <<>>
    /\ shown # <<>> /\ shown[Len(shown)] = iter
    /\ record => (recorded # <<>> /\ recorded[Len(recorded)] = iter)

C19_PolledAtEndOfIteration ==
    /\ keyPolls <= iter /\ iter <= keyPolls + 1
    /\ (pc = "load_frame") => keyPolls = iter
    /\ (pc = "waitkey") => (keyPolls = iter - 1 /\ IterationComplete)
    /\ QuitHonored =>
            /\ pc \in CleanupPcs \cup {"stopped"}
            /\ keyPolls = iter
            /\ IterationComplete

C19_NothingAfterQuit ==
    /\ (~QuitHonored /\ QuitHonored') => pc = "waitkey"
    /\ QuitHonored =>
            /\ pc' \in CleanupPcs \cup {"stopped"}
            /\ UNCHANGED <<iter, processed, imgs_list, frame, keyPolls, inferences,
                           notifyCalls, writeLog, shown, recorded>>

\* C19: the quit key is polled once per iteration, after the frame has been
\* displayed (and recorded when recording is on); the loop leaves on quit only
\* from that poll, with the inference and the notify call of the iteration
\* finished, and reads no further frame afterwards.
C19_QuitOnlyBetweenIterations ==
    [] C19_PolledAtEndOfIteration /\ [][C19_NothingAfterQuit]_vars

C19_Witness ==
    /\ Stopped /\ QuitHonored
    /\ iter = 2 /\ keyPolls = 2
    /\ record /\ Len(recorded) = 2
    /\ Len(writeLog) = retries /\ ~writeLog[retries]

\* the items fetched and the items pending make up the queue as it was built
C20_QueueAccounting ==
    (ImageSource /\ QueueBuilt) =>
        /\ Len(processed) = iter
        /\ iter + Len(imgs_list) = Len(initialQueue)
        /\ processed \o imgs_list = initialQueue

\* every frame loaded takes exactly one item off the queue; nothing puts one on
C20_QueueOnlyShrinks ==
    (ImageSource /\ QueueBuilt) =>
        \/ /\ imgs_list' = imgs_list
           /\ iter' = iter
        \/ /\ imgs_list # <<>>
           /\ imgs_list' = Tail(imgs_list)
           /\ iter' = iter + 1

\* C20: with an image or a folder as the source the loop terminates: each frame
\* loaded shortens the queue by one, the queue is never refilled, and the script
\* stops after at most as many frames as the queue held.
C20_ImageLoopTerminates ==
    /\ [] C20_QueueAccounting
    /\ [][C20_QueueOnlyShrinks]_vars
    /\ (ImageSource /\ QueueBuilt) ~> Stopped

C20_Witness ==
    /\ Stopped /\ ImageSource /\ reason = "eos"
    /\ Len(initialQueue) = 2
    /\ iter = 2 /\ keyPolls = 2 /\ imgs_list = <<>>

====
